---------------------------- MODULE Spec2Model ----------------------------
(***************************************************************************)
(* A model of src/recurrenceConverters.ts: the recurrence-string parser,   *)
(* the compact timestamp formatter, setTime and the two converters         *)
(* parseTo5545 and parseTo8984, driven by a caller that holds a period     *)
(* start, a period end and the day table.                                  *)
(*                                                                         *)
(* Text is a sequence of characters; a character is a one-character        *)
(* string.  The en-dash U+2013 is the one character written EnDash.        *)
(* An instant (a JavaScript Date's time value) is a record                 *)
(* [day |-> days since 1970-01-01, ms |-> millisecond of that UTC day].    *)
(***************************************************************************)
EXTENDS Integers, Sequences, FiniteSets, TLC

VARIABLES dayMap, startDate, endDate, tzOffset, pc, op, recurrence, outcome

vars == <<dayMap, startDate, endDate, tzOffset, pc, op, recurrence, outcome>>

-----------------------------------------------------------------------------
(* Characters and character classes                                        *)

EnDash == "EN-DASH"

Digits == {"0", "1", "2", "3", "4", "5", "6", "7", "8", "9"}

DigitValue ==
  ("0" :> 0) @@ ("1" :> 1) @@ ("2" :> 2) @@ ("3" :> 3) @@ ("4" :> 4) @@
  ("5" :> 5) @@ ("6" :> 6) @@ ("7" :> 7) @@ ("8" :> 8) @@ ("9" :> 9)

DigitChar == <<"0", "1", "2", "3", "4", "5", "6", "7", "8", "9">>

\* \d
IsDigit(c) == c \in Digits

\* \s  (the whitespace characters the inputs use)
IsSpace(c) == c \in {" ", "\t", "\n"}

\* [-–]
IsDash(c) == c \in {"-", EnDash}

\* [MTWRFSU]
DayClass == {"M", "T", "W", "R", "F", "S", "U"}

UpperLetters ==
  <<"A", "B", "C", "D", "E", "F", "G", "H", "I", "J", "K", "L", "M",
    "N", "O", "P", "Q", "R", "S", "T", "U", "V", "W", "X", "Y", "Z">>

LowerLetters ==
  <<"a", "b", "c", "d", "e", "f", "g", "h", "i", "j", "k", "l", "m",
    "n", "o", "p", "q", "r", "s", "t", "u", "v", "w", "x", "y", "z">>

LowerChar(c) ==
  IF \E i \in 1..26 : UpperLetters[i] = c
    THEN LowerLetters[CHOOSE i \in 1..26 : UpperLetters[i] = c]
    ELSE c

\* body applied to the value of x, x evaluated once
With(x, body(_)) == CHOOSE r \in {body(v) : v \in {x}} : TRUE

\* the least and the greatest member of a non-empty set of integers
Min(S) == With(S, LAMBDA T : CHOOSE a \in T : \A b \in T : a <= b)
Max(S) == With(S, LAMBDA T : CHOOSE a \in T : \A b \in T : b <= a)

\* the character at position i, "" past either end
At(s, i) == IF i \in 1..Len(s) THEN s[i] ELSE ""

\* the characters of s from position a to position b, clamped to s
Slice(s, a, b) ==
  LET lo == IF a < 1 THEN 1 ELSE a
      hi == IF b > Len(s) THEN Len(s) ELSE b
  IN  [k \in 1..(hi - lo + 1) |-> s[lo + k - 1]]

\* (?:am|pm) under the i flag, at position i
IsMarkerAt(s, i) ==
  /\ LowerChar(At(s, i)) \in {"a", "p"}
  /\ LowerChar(At(s, i + 1)) = "m"

-----------------------------------------------------------------------------
(* String built-ins used by the parser                                     *)

NaN == -1

ToLowerCase(s) == [i \in 1..Len(s) |-> LowerChar(s[i])]

Trim(s) ==
  With({i \in 1..Len(s) : ~IsSpace(s[i])}, LAMBDA keep :
    IF keep = {} THEN <<>> ELSE Slice(s, Min(keep), Max(keep)))

Includes(s, sub) ==
  \E i \in 1..(Len(s) - Len(sub) + 1) : Slice(s, i, i + Len(sub) - 1) = sub

\* the length of the match of /\s?(am|pm)/ at position i, 0 when there is none
MarkerLenAt(s, i) ==
  IF IsSpace(At(s, i)) /\ Slice(s, i + 1, i + 2) \in {<<"a", "m">>, <<"p", "m">>}
    THEN 3
  ELSE IF Slice(s, i, i + 1) \in {<<"a", "m">>, <<"p", "m">>}
    THEN 2
  ELSE 0

\* timeStr.replace(/\s?(am|pm)/, ''): the leftmost match is removed, the
\* optional whitespace taken when it is there
RemoveMarker(s) ==
  With({i \in 1..Len(s) : MarkerLenAt(s, i) > 0}, LAMBDA hits :
    IF hits = {} THEN s
    ELSE With(Min(hits), LAMBDA i :
           Slice(s, 1, i - 1) \o Slice(s, i + MarkerLenAt(s, i), Len(s))))

RECURSIVE Split(_, _)
Split(s, sep) ==
  With({i \in 1..Len(s) : s[i] = sep}, LAMBDA hits :
    IF hits = {} THEN <<s>>
    ELSE With(Min(hits), LAMBDA i :
           With(Slice(s, i + 1, Len(s)), LAMBDA rest :
             <<Slice(s, 1, i - 1)>> \o Split(rest, sep))))

RECURSIVE DigitsValue(_, _)
\* the number the first k characters of s, all digits, spell
DigitsValue(s, k) ==
  IF k = 0 THEN 0 ELSE 10 * DigitsValue(s, k - 1) + DigitValue[s[k]]

\* parseInt(str, 10) on unsigned text: the leading run of digits, NaN when
\* there is none
ParseInt(s) ==
  With(Max({k \in 0..Len(s) : \A j \in 1..k : IsDigit(s[j])}), LAMBDA k :
    IF k = 0 THEN NaN ELSE DigitsValue(s, k))

-----------------------------------------------------------------------------
(* parseRecurrenceString                                                   *)

\* the day table with R given Tuesday's code
DayMapThursdayAsTuesday ==
  ("M" :> <<"M", "O">>) @@ ("T" :> <<"T", "U">>) @@ ("W" :> <<"W", "E">>) @@
  ("R" :> <<"T", "U">>) @@ ("F" :> <<"F", "R">>) @@ ("S" :> <<"S", "A">>) @@
  ("U" :> <<"S", "U">>)

\* the day table with the entry for U left out
DayMapWithoutSunday ==
  ("M" :> <<"M", "O">>) @@ ("T" :> <<"T", "U">>) @@ ("W" :> <<"W", "E">>) @@
  ("R" :> <<"T", "H">>) @@ ("F" :> <<"F", "R">>) @@ ("S" :> <<"S", "A">>)

\* the day table as the module creates it
DayMapInit ==
  ("M" :> <<"M", "O">>) @@ ("T" :> <<"T", "U">>) @@ ("W" :> <<"W", "E">>) @@
  ("R" :> <<"T", "H">>) @@ ("F" :> <<"F", "R">>) @@ ("S" :> <<"S", "A">>) @@
  ("U" :> <<"S", "U">>)

NoMatch == [found |-> FALSE, g1 |-> <<>>, g2 |-> <<>>]

\* recurrence.match(/^([MTWRFSU]+)\s/)
dayMatch(s) ==
  With(Max({k \in 0..Len(s) : \A j \in 1..k : s[j] \in DayClass}), LAMBDA k :
    IF k >= 1 /\ IsSpace(At(s, k + 1))
      THEN [found |-> TRUE, g1 |-> Slice(s, 1, k), g2 |-> <<>>]
      ELSE NoMatch)

\* the lengths l for which s[i .. i+l-1] matches \d{1,2}(?::\d{2})?\s?(?:am|pm)?
TimeTokenLens(s, i) ==
  { t[1] + t[2] + t[3] + t[4] : t \in
      { t \in {1, 2} \X {0, 3} \X {0, 1} \X {0, 2} :
          /\ \A j \in 0..(t[1] - 1) : IsDigit(At(s, i + j))
          /\ t[2] = 3 => /\ At(s, i + t[1]) = ":"
                         /\ IsDigit(At(s, i + t[1] + 1))
                         /\ IsDigit(At(s, i + t[1] + 2))
          /\ t[3] = 1 => IsSpace(At(s, i + t[1] + t[2]))
          /\ t[4] = 2 => IsMarkerAt(s, i + t[1] + t[2] + t[3]) } }

\* the length the same pattern takes when nothing follows it: every
\* quantifier is greedy and none has to give anything back
GreedyTokenLen(s, i) ==
  With(IF IsDigit(At(s, i + 1)) THEN 2 ELSE 1, LAMBDA nd :
  With(IF /\ At(s, i + nd) = ":"
          /\ IsDigit(At(s, i + nd + 1))
          /\ IsDigit(At(s, i + nd + 2))
         THEN 3 ELSE 0, LAMBDA nc :
  With(IF IsSpace(At(s, i + nd + nc)) THEN 1 ELSE 0, LAMBDA nw :
  With(IF IsMarkerAt(s, i + nd + nc + nw) THEN 2 ELSE 0, LAMBDA nm :
    nd + nc + nw + nm))))

\* the first token ends right before a dash that a digit follows
FirstTokenLens(s, i) ==
  {l \in TimeTokenLens(s, i) : IsDash(At(s, i + l)) /\ IsDigit(At(s, i + l + 1))}

\* the same match with the ASCII hyphen as the only separator
timeMatchHyphenOnly(s) ==
  With({i \in 1..Len(s) :
          \E l \in TimeTokenLens(s, i) :
            At(s, i + l) = "-" /\ IsDigit(At(s, i + l + 1))}, LAMBDA starts :
    IF starts = {} THEN NoMatch
    ELSE With(Min(starts), LAMBDA i :
         With(Max({l \in TimeTokenLens(s, i) :
                     At(s, i + l) = "-" /\ IsDigit(At(s, i + l + 1))}), LAMBDA l :
         With(GreedyTokenLen(s, i + l + 1), LAMBDA l2 :
           [found |-> TRUE,
            g1 |-> Slice(s, i, i + l - 1),
            g2 |-> Slice(s, i + l + 1, i + l + l2)]))))

\* recurrence.match(/(\d{1,2}(?::\d{2})?\s?(?:am|pm)?)[-–](\d{1,2}(?::\d{2})?\s?(?:am|pm)?)/i)
timeMatch(s) ==
  With({i \in 1..Len(s) : IsDigit(s[i]) /\ FirstTokenLens(s, i) # {}}, LAMBDA starts :
    IF starts = {} THEN NoMatch
    ELSE With(Min(starts), LAMBDA i :
         With(Max(FirstTokenLens(s, i)), LAMBDA l :
         With(GreedyTokenLen(s, i + l + 1), LAMBDA l2 :
           [found |-> TRUE,
            g1 |-> Slice(s, i, i + l - 1),
            g2 |-> Slice(s, i + l + 1, i + l + l2)]))))

\* the conversion with noon shifted as well: hours <= 12 for hours < 12
To24HourNoonShifted(marked, period, hours) ==
  With(IF marked /\ period = "pm" /\ hours <= 12 THEN hours + 12 ELSE hours, LAMBDA h :
    IF marked /\ period = "am" /\ h = 12 THEN 0 ELSE h)

\* the hour after the conversion to 24-hour form
To24Hour(marked, period, hours) ==
  With(IF marked /\ period = "pm" /\ hours < 12 THEN hours + 12 ELSE hours, LAMBDA h :
    IF marked /\ period = "am" /\ h = 12 THEN 0 ELSE h)

parseTime(timeStr) ==
  With(Trim(timeStr), LAMBDA trimmed :
  With(ToLowerCase(trimmed), LAMBDA t :
  With(Includes(t, <<"a", "m">>) \/ Includes(t, <<"p", "m">>), LAMBDA marked :
  With(IF Includes(t, <<"p", "m">>) THEN "pm" ELSE "am", LAMBDA period :
  With(IF marked THEN RemoveMarker(t) ELSE t, LAMBDA stripped :
  With(Split(stripped, ":"), LAMBDA parts :
    [hours   |-> To24Hour(marked, period, ParseInt(parts[1])),
     minutes |-> IF Len(parts) >= 2 /\ parts[2] # <<>>
                   THEN ParseInt(parts[2]) ELSE 0]))))))

NoTime == [hours |-> 0, minutes |-> 0]

DaysNotFound == "Invalid recurrence string: days not found"
TimesNotFound == "Invalid recurrence string: times not found"
UnsupportedDayLetter(letter) == "Unsupported day letter: " \o letter

ParseError(msg) ==
  [kind |-> "error", message |-> msg, days |-> <<>>,
   startTime |-> NoTime, endTime |-> NoTime]

\* map is the day table the call reads
parseRecurrenceString(s, map) ==
  With(dayMatch(s), LAMBDA dm :
    IF ~dm.found THEN ParseError(DaysNotFound)
    ELSE With({i \in 1..Len(dm.g1) : dm.g1[i] \notin DOMAIN map}, LAMBDA bad :
      IF bad # {} THEN ParseError(UnsupportedDayLetter(dm.g1[Min(bad)]))
      ELSE With(timeMatch(s), LAMBDA tm :
        IF ~tm.found THEN ParseError(TimesNotFound)
        ELSE [kind |-> "ok", message |-> "",
              days |-> [i \in 1..Len(dm.g1) |-> map[dm.g1[i]]],
              startTime |-> parseTime(tm.g1),
              endTime |-> parseTime(tm.g2)])))

-----------------------------------------------------------------------------
(* Date built-ins: the time value as day number and millisecond of day     *)

MsPerDay == 86400000
MsPerHour == 3600000
MsPerMinute == 60000
MsPerSecond == 1000

\* the day number of the civil date y-m-d (proleptic Gregorian, UTC)
DaysFromCivil(y, m, d) ==
  With(IF m <= 2 THEN y - 1 ELSE y, LAMBDA yy :
  With(yy \div 400, LAMBDA era :
  With(yy - era * 400, LAMBDA yoe :
  With(IF m > 2 THEN m - 3 ELSE m + 9, LAMBDA mp :
  With((153 * mp + 2) \div 5 + d - 1, LAMBDA doy :
    era * 146097 + (yoe * 365 + yoe \div 4 - yoe \div 100 + doy) - 719468)))))

\* getUTCFullYear, getUTCMonth + 1 and getUTCDate of a day number
CivilFromDays(z0) ==
  With(z0 + 719468, LAMBDA z :
  With(z \div 146097, LAMBDA era :
  With(z - era * 146097, LAMBDA doe :
  With((doe - doe \div 1460 + doe \div 36524 - doe \div 146096) \div 365, LAMBDA yoe :
  With(doe - (365 * yoe + yoe \div 4 - yoe \div 100), LAMBDA doy :
  With((5 * doy + 2) \div 153, LAMBDA mp :
  With(IF mp < 10 THEN mp + 3 ELSE mp - 9, LAMBDA m :
    [year  |-> yoe + era * 400 + (IF m <= 2 THEN 1 ELSE 0),
     month |-> m,
     date  |-> doy - (153 * mp + 2) \div 5 + 1])))))))

\* a time value brought back to a millisecond within its day
MakeDate(day, ms) == [day |-> day + ms \div MsPerDay, ms |-> ms % MsPerDay]

\* new Date('YYYY-MM-DDTHH:mm:ss.sssZ')
NewDate(y, m, d, hh, mm, ss, ms) ==
  [day |-> DaysFromCivil(y, m, d),
   ms  |-> hh * MsPerHour + mm * MsPerMinute + ss * MsPerSecond + ms]

\* the UTC fields of an instant
UTCFields(date) ==
  With(CivilFromDays(date.day), LAMBDA c :
    [year |-> c.year, month |-> c.month, date |-> c.date,
     hours   |-> date.ms \div MsPerHour,
     minutes |-> (date.ms % MsPerHour) \div MsPerMinute,
     seconds |-> (date.ms % MsPerMinute) \div MsPerSecond,
     millis  |-> date.ms % MsPerSecond])

RECURSIVE NatToString(_)
NatToString(n) ==
  IF n < 10 THEN <<DigitChar[n + 1]>>
  ELSE NatToString(n \div 10) \o <<DigitChar[(n % 10) + 1]>>

\* Number.prototype.toString of an integer
NumberToString(n) == IF n < 0 THEN <<"-">> \o NatToString(-n) ELSE NatToString(n)

\* String.prototype.padStart with a one-character filler
PadStart(s, width, fill) ==
  [i \in 1..(IF Len(s) >= width THEN 0 ELSE width - Len(s)) |-> fill] \o s

RECURSIVE Join(_, _)
\* Array.prototype.join
Join(parts, sep) ==
  IF parts = <<>> THEN <<>>
  ELSE IF Len(parts) = 1 THEN parts[1]
  ELSE With(Tail(parts), LAMBDA rest : parts[1] \o sep \o Join(rest, sep))

\* the year of Date.prototype.toISOString: four digits, or a sign and six
ISOYear(year) ==
  IF year >= 0 /\ year <= 9999
    THEN With(NumberToString(year), LAMBDA y : PadStart(y, 4, "0"))
  ELSE IF year < 0
    THEN With(NumberToString(-year), LAMBDA y : <<"-">> \o PadStart(y, 6, "0"))
  ELSE With(NumberToString(year), LAMBDA y : <<"+">> \o PadStart(y, 6, "0"))

pad(n) == With(NumberToString(n), LAMBDA s : PadStart(s, 2, "0"))

\* Date.prototype.toISOString
toISOString(date) ==
  With(UTCFields(date), LAMBDA f :
    ISOYear(f.year) \o <<"-">> \o pad(f.month) \o <<"-">> \o pad(f.date) \o <<"T">> \o
    pad(f.hours) \o <<":">> \o pad(f.minutes) \o <<":">> \o pad(f.seconds) \o <<".">> \o
    With(NumberToString(f.millis), LAMBDA s : PadStart(s, 3, "0")) \o <<"Z">>)

-----------------------------------------------------------------------------
(* formatDateTo5545, setTime and the two converters                        *)

formatDateTo5545(date) ==
  With(UTCFields(date), LAMBDA f :
    NumberToString(f.year) \o pad(f.month) \o pad(f.date) \o <<"T">> \o
    pad(f.hours) \o pad(f.minutes) \o pad(f.seconds) \o <<"Z">>)

\* setTime without the copy: setHours applied to the argument itself
setTimeInPlace(date, hours, minutes, tz) ==
  With(MakeDate(date.day, date.ms + tz * MsPerMinute), LAMBDA local :
  With(MakeDate(local.day,
                hours * MsPerHour + minutes * MsPerMinute - tz * MsPerMinute), LAMBDA newDate :
    [newDate |-> newDate, date |-> newDate]))

\* tz is the local zone's offset from UTC in minutes (local = UTC + tz).
\* The result holds the Date returned and the argument object as the call
\* leaves it.
setTime(date, hours, minutes, tz) ==
  With(MakeDate(date.day, date.ms + tz * MsPerMinute), LAMBDA local :
    [newDate |-> MakeDate(local.day,
                          hours * MsPerHour + minutes * MsPerMinute - tz * MsPerMinute),
     date |-> date])

TextBeginVEvent == <<"B", "E", "G", "I", "N", ":", "V", "E", "V", "E", "N", "T">>
TextDtStart == <<"D", "T", "S", "T", "A", "R", "T", ":">>
TextDtEnd == <<"D", "T", "E", "N", "D", ":">>
TextRRule == <<"R", "R", "U", "L", "E", ":", "F", "R", "E", "Q", "=", "W", "E", "E", "K", "L", "Y", ";", "B", "Y", "D", "A", "Y", "=">>
TextUntil == <<";", "U", "N", "T", "I", "L", "=">>
TextEndVEvent == <<"E", "N", "D", ":", "V", "E", "V", "E", "N", "T">>
TextWeekly == <<"W", "E", "E", "K", "L", "Y">>

NoPattern == ParseError("")

NoJson ==
  [dtstart |-> <<>>, dtend |-> <<>>,
   recurrence |-> [frequency |-> <<>>, byDay |-> <<>>, until |-> <<>>]]

NoOutcome ==
  [kind |-> "none", message |-> "", pattern |-> NoPattern, text |-> <<>>, json |-> NoJson]

\* a call that ends by the parser's throw: nothing else has run
Thrown(pattern, start, end) ==
  [outcome |-> [kind |-> "error", message |-> pattern.message, pattern |-> pattern,
                text |-> <<>>, json |-> NoJson],
   startDate |-> start, endDate |-> end]

\* parseTo5545 with UNTIL taken from the period start
parseTo5545UntilStart(start, end, s, map, tz) ==
  With(parseRecurrenceString(s, map), LAMBDA pattern :
    IF pattern.kind = "error" THEN Thrown(pattern, start, end)
    ELSE
      With(setTime(start, pattern.startTime.hours, pattern.startTime.minutes, tz), LAMBDA a :
      With(setTime(a.date, pattern.endTime.hours, pattern.endTime.minutes, tz), LAMBDA b :
      With(TextRRule \o Join(pattern.days, <<",">>) \o TextUntil \o
           formatDateTo5545(start), LAMBDA rrule :
      With(Join(<<TextBeginVEvent,
                  TextDtStart \o formatDateTo5545(a.newDate),
                  TextDtEnd \o formatDateTo5545(b.newDate),
                  rrule,
                  TextEndVEvent>>, <<"\n">>), LAMBDA icalString :
        [outcome |-> [kind |-> "ok", message |-> "", pattern |-> pattern,
                      text |-> icalString, json |-> NoJson],
         startDate |-> b.date, endDate |-> end])))))

\* parseTo8984 with the event end set on the period end's date
parseTo8984EndAnchored(start, end, s, map, tz) ==
  With(parseRecurrenceString(s, map), LAMBDA pattern :
    IF pattern.kind = "error" THEN Thrown(pattern, start, end)
    ELSE
      With(setTime(start, pattern.startTime.hours, pattern.startTime.minutes, tz), LAMBDA a :
      With(setTime(end, pattern.endTime.hours, pattern.endTime.minutes, tz), LAMBDA b :
        [outcome |->
           [kind |-> "ok", message |-> "", pattern |-> pattern, text |-> <<>>,
            json |-> [dtstart |-> toISOString(a.newDate),
                      dtend |-> toISOString(b.newDate),
                      recurrence |-> [frequency |-> TextWeekly,
                                      byDay |-> pattern.days,
                                      until |-> toISOString(end)]]],
         startDate |-> a.date, endDate |-> b.date])))

\* The result holds what the call returns (or throws) and the two Date
\* arguments as the call leaves them.
parseTo5545(start, end, s, map, tz) ==
  With(parseRecurrenceString(s, map), LAMBDA pattern :
    IF pattern.kind = "error" THEN Thrown(pattern, start, end)
    ELSE
      With(setTime(start, pattern.startTime.hours, pattern.startTime.minutes, tz), LAMBDA a :
      With(setTime(a.date, pattern.endTime.hours, pattern.endTime.minutes, tz), LAMBDA b :
      With(a.newDate, LAMBDA dtStart :
      With(b.newDate, LAMBDA dtEnd :
      With(TextRRule \o Join(pattern.days, <<",">>) \o TextUntil \o
           formatDateTo5545(end), LAMBDA rrule :
      With(Join(<<TextBeginVEvent,
                  TextDtStart \o formatDateTo5545(dtStart),
                  TextDtEnd \o formatDateTo5545(dtEnd),
                  rrule,
                  TextEndVEvent>>, <<"\n">>), LAMBDA icalString :
        [outcome |-> [kind |-> "ok", message |-> "", pattern |-> pattern,
                      text |-> icalString, json |-> NoJson],
         startDate |-> b.date, endDate |-> end])))))))

parseTo8984(start, end, s, map, tz) ==
  With(parseRecurrenceString(s, map), LAMBDA pattern :
    IF pattern.kind = "error" THEN Thrown(pattern, start, end)
    ELSE
      With(setTime(start, pattern.startTime.hours, pattern.startTime.minutes, tz), LAMBDA a :
      With(setTime(a.date, pattern.endTime.hours, pattern.endTime.minutes, tz), LAMBDA b :
      With(a.newDate, LAMBDA eventStart :
      With(b.newDate, LAMBDA eventEnd :
        [outcome |->
           [kind |-> "ok", message |-> "", pattern |-> pattern, text |-> <<>>,
            json |-> [dtstart |-> toISOString(eventStart),
                      dtend |-> toISOString(eventEnd),
                      recurrence |-> [frequency |-> TextWeekly,
                                      byDay |-> pattern.days,
                                      until |-> toISOString(end)]]],
         startDate |-> b.date, endDate |-> end])))))

-----------------------------------------------------------------------------
(* The inputs the caller draws from                                        *)

MaxDays == 2

RECURSIVE DayRunsOfLen(_)
DayRunsOfLen(n) ==
  IF n = 0 THEN {<<>>}
  ELSE {<<c>> \o r : c \in DayClass, r \in DayRunsOfLen(n - 1)}

\* every run of 1..MaxDays day letters
DayRuns == UNION {DayRunsOfLen(n) : n \in 1..MaxDays}

\* hour digits: both sides of noon, 12, past 12, past 23
HourTexts ==
  { <<"0">>,                                                     \* "0"
    <<"1">>,                                                     \* "1"
    <<"1", "1">>,                                                \* "11"
    <<"1", "2">>,                                                \* "12"
    <<"1", "3">>,                                                \* "13"
    <<"2", "5">> }                                               \* "25"

\* no minutes, two minute digits, minutes past 59
MinuteTexts ==
  { <<>>,                                                        \* ""
    <<":", "0", "5">>,                                           \* ":05"
    <<":", "6", "0">> }                                          \* ":60"

\* no marker, a marker, a marker after one blank, an upper-case marker
MarkerTexts ==
  { <<>>,                                                        \* ""
    <<"a", "m">>,                                                \* "am"
    <<"p", "m">>,                                                \* "pm"
    <<" ", "p", "m">>,                                           \* " pm"
    <<"A", "M">> }                                               \* "AM"

TimeTokens == {h \o m \o k : h \in HourTexts, m \in MinuteTexts, k \in MarkerTexts}

\* the tokens every token is paired with
PartnerTokens ==
  { <<"1", "2", ":", "1", "5", "p", "m">>,                       \* "12:15pm"
    <<"1", "0">> }                                               \* "10"

TimeRanges ==
  {a \o <<"-">> \o b : a \in TimeTokens, b \in PartnerTokens} \cup
  {a \o <<"-">> \o b : a \in PartnerTokens, b \in TimeTokens} \cup
  {a \o <<EnDash>> \o b : a \in PartnerTokens, b \in PartnerTokens}

\* the ranges every day run is paired with
SampleRanges ==
  { <<"1", "1", "a", "m", "-", "1", "2", ":", "1", "5", "p", "m">> } \* "11am-12:15pm"

\* what a string may start with instead of a day run and one blank
Prefixes ==
  { <<>>,                                                        \* ""
    <<" ", "M", " ">>,                                           \* " M "
    <<"t", "r", " ">>,                                           \* "tr "
    <<"T", "X", " ">>,                                           \* "TX "
    <<"x", "T", " ">>,                                           \* "xT "
    <<"T">>,                                                     \* "T"
    <<"M", "W", "F", "\t">>,                                     \* "MWF\t"
    <<"M", "W", "F", "\n">>,                                     \* "MWF\n"
    <<"U", " ", " ">>,                                           \* "U  "
    <<"M", " ", "r", "o", "o", "m", " ", "1", "2", " ">> }       \* "M room 12 "

\* what may follow the prefix instead of a well-formed range
Tails ==
  { <<>>,                                                        \* ""
    <<"1", "1", "a", "m", "-", "1", "2", ":", "1", "5", "p", "m">>, \* "11am-12:15pm"
    <<"s", "o", "m", "e", "t", "i", "m", "e">>,                  \* "sometime"
    <<"9", " ", "-", "1", "0">>,                                 \* "9 -10"
    <<"9", " ", "a", "m", "-", "1", "0", " ", "a", "m">>,        \* "9 am-10 am"
    <<"9", "a", "m", " ", "-", " ", "1", "0", "a", "m">>,        \* "9am - 10am"
    <<"9", ":", "5", "-", "1", "0">>,                            \* "9:5-10"
    <<"1", "2", "3", "-", "4">>,                                 \* "123-4"
    <<"9", ":", "1", "5", ":", "3", "0", "a", "m", "-", "1", "0", "a", "m">>, \* "9:15:30am-10am"
    <<"9", "-", "-", "1", "0">>,                                 \* "9--10"
    <<"x", "9", "-", "1", "0", "p", "m">>,                       \* "x9-10pm"
    <<"9", "-", "1", "0", " ", "1", "1", "-", "1", "2">>,        \* "9-10 11-12"
    <<"9", "-">>,                                                \* "9-"
    <<"9", "a", "m", "-", "p", "m">>,                            \* "9am-pm"
    <<"1", "4", ":", "0", "0", EnDash, "1", "5", ":", "3", "0">>, \* "14:00–15:30"
    <<"8", ":", "3", "0", "P", "M", EnDash, "9", ":", "4", "5", " ", "P", "m", " ", "x">>, \* "8:30PM–9:45 Pm x"
    <<"9", ":", "-", "1", "0">>,                                 \* "9:-10"
    <<"9", " ", "\t", "a", "m", "-", "1", "0">> }                \* "9 \tam-10"

Inputs ==
  {<<"T", "R", " ">> \o r : r \in TimeRanges} \cup
  {d \o <<" ">> \o r : d \in DayRuns, r \in SampleRanges} \cup
  {p \o t : p \in Prefixes \cup {<<"M", " ">>, <<"M", "W", "F", " ">>}, t \in Tails}

\* the period of the example usage and the tests, and a period before year
\* 1000 that ends before it starts and starts late in its UTC day
Periods ==
  { [start |-> NewDate(2025, 3, 10, 0, 0, 0, 0), end |-> NewDate(2025, 6, 10, 23, 59, 59, 0)],
    [start |-> NewDate(999, 12, 31, 23, 30, 45, 123), end |-> NewDate(999, 1, 2, 3, 4, 5, 6)] }

\* local zone offsets in minutes east of UTC
TzOffsets == {0, -300, 330}

-----------------------------------------------------------------------------
(* The caller                                                              *)

Init ==
  /\ dayMap = DayMapInit
  /\ \E p \in Periods : startDate = p.start /\ endDate = p.end
  /\ tzOffset \in TzOffsets
  /\ pc = "idle"
  /\ op = "none"
  /\ recurrence = <<>>
  /\ outcome = NoOutcome

\* what a call of function f on the caller's dates leaves behind
Invoke(f, s) ==
  \E r \in {IF f = "parseTo5545"
              THEN parseTo5545(startDate, endDate, s, dayMap, tzOffset)
              ELSE parseTo8984(startDate, endDate, s, dayMap, tzOffset)} :
    /\ outcome' = r.outcome
    /\ startDate' = r.startDate
    /\ endDate' = r.endDate
    /\ op' = f
    /\ recurrence' = s
    /\ pc' = "returned"
    /\ UNCHANGED <<dayMap, tzOffset>>

CallParseTo5545 ==
  /\ pc = "idle"
  /\ \E s \in Inputs : Invoke("parseTo5545", s)

CallParseTo8984 ==
  /\ pc = "idle"
  /\ \E s \in Inputs : Invoke("parseTo8984", s)

\* the same call made again with the same arguments
Repeat ==
  /\ pc = "returned"
  /\ Invoke(op, recurrence)

\* the caller drops the result and goes on
Return ==
  /\ pc = "returned"
  /\ pc' = "idle"
  /\ op' = "none"
  /\ recurrence' = <<>>
  /\ outcome' = NoOutcome
  /\ UNCHANGED <<dayMap, startDate, endDate, tzOffset>>

Next == CallParseTo5545 \/ CallParseTo8984 \/ Repeat \/ Return

Spec == Init /\ [][Next]_vars

-----------------------------------------------------------------------------
(* What the claims speak of, read off the caller's state                   *)

Returned == pc = "returned"
Succeeded == pc = "returned" /\ outcome.kind = "ok"

\* the Day Code Table as the specification gives it
ClaimDayCode(letter) ==
  CASE letter = "M" -> <<"M", "O">>
    [] letter = "T" -> <<"T", "U">>
    [] letter = "W" -> <<"W", "E">>
    [] letter = "R" -> <<"T", "H">>
    [] letter = "F" -> <<"F", "R">>
    [] letter = "S" -> <<"S", "A">>
    [] letter = "U" -> <<"S", "U">>
    [] OTHER -> <<>>

ClaimDayLetters == {"M", "T", "W", "R", "F", "S", "U"}

\* the length of the run of day letters that starts s and that a whitespace
\* character follows, 0 when s does not start with one
ClaimDayPrefixLen(s) ==
  With({k \in 1..(Len(s) - 1) :
          /\ \A j \in 1..k : s[j] \in ClaimDayLetters
          /\ IsSpace(s[k + 1])}, LAMBDA ks :
    IF ks = {} THEN 0 ELSE Max(ks))

\* w has the shape H[:MM][am|pm], with one whitespace character allowed
\* before the marker (or before what follows) when blank is TRUE
ClaimTokenShape(w, blank) ==
  \E nd \in {1, 2}, nc \in {0, 3}, nw \in (IF blank THEN {0, 1} ELSE {0}), nm \in {0, 2} :
    /\ Len(w) = nd + nc + nw + nm
    /\ \A j \in 1..nd : IsDigit(w[j])
    /\ nc = 3 => w[nd + 1] = ":" /\ IsDigit(w[nd + 2]) /\ IsDigit(w[nd + 3])
    /\ nw = 1 => IsSpace(w[nd + nc + 1])
    /\ nm = 2 => /\ LowerChar(w[nd + nc + nw + 1]) \in {"a", "p"}
                 /\ LowerChar(w[nd + nc + nw + 2]) = "m"

\* the lengths of the tokens of that shape that start at position i of s
ClaimTokenLensAt(s, i, blank) ==
  IF ~IsDigit(At(s, i)) THEN {}
  ELSE {l \in 1..8 : i + l - 1 <= Len(s) /\ ClaimTokenShape(Slice(s, i, i + l - 1), blank)}

\* the first substring token-separator-token of s, taken as long as it goes
ClaimFirstRange(s, blank) ==
  With({i \in 1..Len(s) :
          \E l \in ClaimTokenLensAt(s, i, blank) :
            /\ At(s, i + l) \in {"-", EnDash}
            /\ ClaimTokenLensAt(s, i + l + 1, blank) # {}}, LAMBDA starts :
    IF starts = {} THEN [found |-> FALSE, first |-> <<>>, second |-> <<>>]
    ELSE With(Min(starts), LAMBDA i :
         With(Max({l \in ClaimTokenLensAt(s, i, blank) :
                     /\ At(s, i + l) \in {"-", EnDash}
                     /\ ClaimTokenLensAt(s, i + l + 1, blank) # {}}), LAMBDA l :
         With(Max(ClaimTokenLensAt(s, i + l + 1, blank)), LAMBDA l2 :
           [found |-> TRUE,
            first |-> Slice(s, i, i + l - 1),
            second |-> Slice(s, i + l + 1, i + l + l2)]))))

\* the clock time a token stands for, by the rules of the specification
ClaimClockTime(w) ==
  With(IF IsDigit(At(w, 2)) THEN 2 ELSE 1, LAMBDA nd :
  With(DigitsValue(w, nd), LAMBDA hour :
  With(IF Len(w) >= 2 /\ LowerChar(w[Len(w)]) = "m" THEN LowerChar(w[Len(w) - 1]) ELSE "",
       LAMBDA marker :
    [hours   |-> IF marker = "p" /\ hour < 12 THEN hour + 12
                 ELSE IF marker = "a" /\ hour = 12 THEN 0
                 ELSE hour,
     minutes |-> IF At(w, nd + 1) = ":"
                   THEN 10 * DigitValue[w[nd + 2]] + DigitValue[w[nd + 3]]
                   ELSE 0])))

\* the lines of a text
ClaimLines(text) == Split(text, "\n")

\* s without its first n characters
ClaimDrop(s, n) == Slice(s, n + 1, Len(s))

ClaimStartsWith(s, prefix) == Slice(s, 1, Len(prefix)) = prefix

\* the integer a text of digits with an optional sign spells
ClaimNumber(w) ==
  IF At(w, 1) = "-" THEN 0 - DigitsValue(ClaimDrop(w, 1), Len(w) - 1)
  ELSE IF At(w, 1) = "+" THEN DigitsValue(ClaimDrop(w, 1), Len(w) - 1)
  ELSE DigitsValue(w, Len(w))

\* the instant a compact timestamp <year>MMDDTHHMMSSZ denotes
ClaimDecodeCompact(ts) ==
  With(Len(ts) - 12, LAMBDA n :
    [day |-> DaysFromCivil(ClaimNumber(Slice(ts, 1, n)),
                           ClaimNumber(Slice(ts, n + 1, n + 2)),
                           ClaimNumber(Slice(ts, n + 3, n + 4))),
     ms  |-> ClaimNumber(Slice(ts, n + 6, n + 7)) * MsPerHour +
             ClaimNumber(Slice(ts, n + 8, n + 9)) * MsPerMinute +
             ClaimNumber(Slice(ts, n + 10, n + 11)) * MsPerSecond])

\* the instant, cut to the second, an ISO-8601 text <year>-MM-DDTHH:mm:ss.sssZ denotes
ClaimDecodeISO(ts) ==
  With(Len(ts) - 20, LAMBDA n :
    [day |-> DaysFromCivil(ClaimNumber(Slice(ts, 1, n)),
                           ClaimNumber(Slice(ts, n + 2, n + 3)),
                           ClaimNumber(Slice(ts, n + 5, n + 6))),
     ms  |-> ClaimNumber(Slice(ts, n + 8, n + 9)) * MsPerHour +
             ClaimNumber(Slice(ts, n + 11, n + 12)) * MsPerMinute +
             ClaimNumber(Slice(ts, n + 14, n + 15)) * MsPerSecond])

\* the three instants a successful outcome carries: start, end and until
ClaimInstants(f, o) ==
  IF f = "parseTo5545"
    THEN With(ClaimLines(o.text), LAMBDA lines :
           [start |-> ClaimDecodeCompact(ClaimDrop(lines[2], Len(TextDtStart))),
            end   |-> ClaimDecodeCompact(ClaimDrop(lines[3], Len(TextDtEnd))),
            until |-> ClaimDecodeCompact(
                        Slice(lines[4], Max({i \in 1..Len(lines[4]) : lines[4][i] = "="}) + 1,
                              Len(lines[4])))])
    ELSE [start |-> ClaimDecodeISO(o.json.dtstart),
          end   |-> ClaimDecodeISO(o.json.dtend),
          until |-> ClaimDecodeISO(o.json.recurrence.until)]

\* the codes of the BYDAY list of an event block, in order
ClaimByDayList(text) ==
  With(ClaimLines(text)[4], LAMBDA rrule :
  With(Split(rrule, ";")[2], LAMBDA byDay :
  With(ClaimDrop(byDay, Max({i \in 1..Len(byDay) : byDay[i] = "="})), LAMBDA codes :
    Split(codes, ","))))

\* the calendar and clock fields of an instant in the local zone
ClaimLocalFields(instant, tz) ==
  UTCFields(MakeDate(instant.day, instant.ms + tz * MsPerMinute))

ClaimSameLocalDate(f, g) == f.year = g.year /\ f.month = g.month /\ f.date = g.date

ClaimAtLocalClock(f, time) ==
  /\ f.hours = time.hours
  /\ f.minutes = time.minutes
  /\ f.seconds = 0
  /\ f.millis = 0

ClaimTextBegin == <<"B", "E", "G", "I", "N", ":", "V", "E", "V", "E", "N", "T">>
ClaimTextDtStart == <<"D", "T", "S", "T", "A", "R", "T", ":">>
ClaimTextDtEnd == <<"D", "T", "E", "N", "D", ":">>
ClaimTextRRule == <<"R", "R", "U", "L", "E", ":", "F", "R", "E", "Q", "=", "W", "E", "E", "K", "L", "Y", ";", "B", "Y", "D", "A", "Y", "=">>
ClaimTextUntil == <<";", "U", "N", "T", "I", "L", "=">>
ClaimTextEnd == <<"E", "N", "D", ":", "V", "E", "V", "E", "N", "T">>
ClaimTextWeekly == <<"W", "E", "E", "K", "L", "Y">>

\* "TR 11am-12:15pm" and what the specification expects of it
ClaimExampleString == <<"T", "R", " ", "1", "1", "a", "m", "-", "1", "2", ":", "1", "5", "p", "m">>
ClaimExampleRRule ==
  <<"R", "R", "U", "L", "E", ":", "F", "R", "E", "Q", "=", "W", "E", "E",
    "K", "L", "Y", ";", "B", "Y", "D", "A", "Y", "=", "T", "U", ",", "T",
    "H", ";", "U", "N", "T", "I", "L", "=", "2", "0", "2", "5", "0", "6",
    "1", "0", "T", "2", "3", "5", "9", "5", "9", "Z">>
ClaimExampleDtStart == <<"D", "T", "S", "T", "A", "R", "T", ":", "2", "0", "2", "5", "0", "3", "1", "0", "T", "1", "1", "0", "0", "0", "0", "Z">>
ClaimExampleDtEnd == <<"D", "T", "E", "N", "D", ":", "2", "0", "2", "5", "0", "3", "1", "0", "T", "1", "2", "1", "5", "0", "0", "Z">>
ClaimExampleStart == NewDate(2025, 3, 10, 0, 0, 0, 0)
ClaimExampleEnd == NewDate(2025, 6, 10, 23, 59, 59, 0)

RECURSIVE ClaimCommaJoined(_)
ClaimCommaJoined(codes) ==
  IF Len(codes) = 0 THEN <<>>
  ELSE IF Len(codes) = 1 THEN codes[1]
  ELSE With(Tail(codes), LAMBDA rest : codes[1] \o <<",">> \o ClaimCommaJoined(rest))

\* a compact timestamp: digits, a T and a closing Z
ClaimIsTimestamp(ts) ==
  /\ Len(ts) >= 13
  /\ ts[Len(ts)] = "Z"
  /\ ts[Len(ts) - 7] = "T"
  /\ \A i \in 1..Len(ts) : i \notin {Len(ts), Len(ts) - 7} => ts[i] \in Digits \cup {"-"}

\* ts is YYYYMMDDTHHMMSSZ: sixteen characters, digits around the T and the Z
ClaimIsSixteen(ts) ==
  /\ Len(ts) = 16
  /\ ts[9] = "T"
  /\ ts[16] = "Z"
  /\ \A i \in (1..8) \cup (10..15) : IsDigit(ts[i])

-----------------------------------------------------------------------------
(* The claims                                                              *)

\* C1: for a string that is a non-empty run D of day letters, one blank and a
\* well-formed time range, the parser succeeds and days has |D| entries,
\* entry i being the Day Code Table's code of letter i of D: the order is
\* kept and repeated letters stay repeated.
C1_DaysTranslatedInOrder ==
  With(ClaimDayPrefixLen(recurrence), LAMBDA k :
    (/\ Returned
     /\ k > 0
     /\ recurrence[k + 1] = " "
     /\ ClaimDrop(recurrence, k + 1) \in TimeRanges \cup SampleRanges)
    => /\ outcome.kind = "ok"
       /\ Len(outcome.pattern.days) = k
       /\ \A i \in 1..k : outcome.pattern.days[i] = ClaimDayCode(recurrence[i]))

\* a repeated letter was parsed: "RR ..." gave TH, TH
C1_Witness ==
  /\ Succeeded
  /\ Slice(recurrence, 1, 3) = <<"R", "R", " ">>
  /\ outcome.pattern.days = <<<<"T", "H">>, <<"T", "H">>>>

\* C2: each captured time token is normalized on its own: pm adds 12 below
\* 12 and leaves 12, am turns 12 into 0 and leaves the rest, no marker means
\* no adjustment whatever the other token carries, and the minute is the two
\* digits after the colon or 0.
C2_TokensNormalizedAlone ==
  Succeeded =>
    With(timeMatch(recurrence), LAMBDA tm :
      /\ outcome.pattern.startTime = ClaimClockTime(tm.g1)
      /\ outcome.pattern.endTime = ClaimClockTime(tm.g2))

\* "1pm-10" was parsed: 13:00 for the marked token, 10:00 for the bare one
C2_Witness ==
  /\ Succeeded
  /\ timeMatch(recurrence).g1 = <<"1", "p", "m">>
  /\ timeMatch(recurrence).g2 = <<"1", "0">>
  /\ outcome.pattern.startTime = [hours |-> 13, minutes |-> 0]
  /\ outcome.pattern.endTime = [hours |-> 10, minutes |-> 0]

\* the outcome of the parser as the shape of the time range decides it;
\* blank says whether one whitespace character may stand before the marker
ClaimOutcomeDetermined(blank) ==
  Returned =>
    With(ClaimDayPrefixLen(recurrence) > 0, LAMBDA hasDays :
    With(ClaimFirstRange(recurrence, blank), LAMBDA range :
      /\ (outcome.kind = "error" /\ outcome.message = DaysNotFound) <=> ~hasDays
      /\ (outcome.kind = "error" /\ outcome.message = TimesNotFound)
           <=> (hasDays /\ ~range.found)
      /\ outcome.kind = "ok" <=> (hasDays /\ range.found)
      /\ outcome.kind = "ok" =>
           /\ outcome.pattern.startTime = ClaimClockTime(range.first)
           /\ outcome.pattern.endTime = ClaimClockTime(range.second)))

\* C3 as stated: "days not found" exactly without a day run and a whitespace
\* character at the very start; with it, "times not found" exactly when no
\* substring has the shape H[:MM][am|pm] separator H[:MM][am|pm]; a pattern
\* built from the first such substring otherwise.
C3_Original == ClaimOutcomeDetermined(FALSE)

\* C3 amended: the same with the shape H[:MM][w][am|pm] separator
\* H[:MM][w][am|pm], w being at most one whitespace character, and the first
\* such substring taken as long as it goes.
C3_OutcomeDetermined == ClaimOutcomeDetermined(TRUE)

\* "M 9 am-10 am" was accepted: a blank stands before each marker
C3_Witness ==
  /\ Succeeded
  /\ recurrence = <<"M", " ", "9", " ", "a", "m", "-", "1", "0", " ", "a", "m">>
  /\ outcome.pattern.startTime = [hours |-> 9, minutes |-> 0]
  /\ outcome.pattern.endTime = [hours |-> 10, minutes |-> 0]

\* C4: a successful parseTo5545 returns the five lines BEGIN:VEVENT,
\* DTSTART:<timestamp>, DTEND:<timestamp>, RRULE:FREQ=WEEKLY;BYDAY=<codes>;
\* UNTIL=<timestamp of periodEnd>, END:VEVENT, joined by single newlines with
\* none at the end, the codes being pattern.days joined by commas; the
\* example gives RRULE:FREQ=WEEKLY;BYDAY=TU,TH;UNTIL=20250610T235959Z.
C4_EventBlock ==
  (Succeeded /\ op = "parseTo5545") =>
    With(ClaimLines(outcome.text), LAMBDA lines :
      /\ Len(lines) = 5
      /\ lines[1] = ClaimTextBegin
      /\ ClaimStartsWith(lines[2], ClaimTextDtStart)
      /\ ClaimIsTimestamp(ClaimDrop(lines[2], Len(ClaimTextDtStart)))
      /\ ClaimStartsWith(lines[3], ClaimTextDtEnd)
      /\ ClaimIsTimestamp(ClaimDrop(lines[3], Len(ClaimTextDtEnd)))
      /\ lines[4] = ClaimTextRRule \o ClaimCommaJoined(outcome.pattern.days) \o
                    ClaimTextUntil \o formatDateTo5545(endDate)
      /\ lines[5] = ClaimTextEnd
      /\ (recurrence = ClaimExampleString /\ endDate = ClaimExampleEnd)
           => lines[4] = ClaimExampleRRule)

\* the example was converted and its RRULE line is the expected one
C4_Witness ==
  /\ Succeeded
  /\ op = "parseTo5545"
  /\ recurrence = ClaimExampleString
  /\ startDate = ClaimExampleStart
  /\ endDate = ClaimExampleEnd
  /\ ClaimLines(outcome.text)[4] = ClaimExampleRRule

\* C5 as stated: for every accepted string, period and zone offset the start
\* and end instants of either converter fall on the local calendar date of
\* periodStart, at the local clock time of the parsed startTime and endTime
\* with zero seconds and sub-seconds; with the zone at UTC the example gives
\* DTSTART:20250310T110000Z and DTEND:20250310T121500Z.
C5_Original ==
  Succeeded =>
    With(ClaimInstants(op, outcome), LAMBDA at :
    With(ClaimLocalFields(startDate, tzOffset), LAMBDA day :
    With(ClaimLocalFields(at.start, tzOffset), LAMBDA s :
    With(ClaimLocalFields(at.end, tzOffset), LAMBDA e :
      /\ ClaimSameLocalDate(s, day)
      /\ ClaimSameLocalDate(e, day)
      /\ ClaimAtLocalClock(s, outcome.pattern.startTime)
      /\ ClaimAtLocalClock(e, outcome.pattern.endTime)
      /\ (/\ op = "parseTo5545"
          /\ tzOffset = 0
          /\ recurrence = ClaimExampleString
          /\ startDate = ClaimExampleStart)
         => /\ ClaimLines(outcome.text)[2] = ClaimExampleDtStart
            /\ ClaimLines(outcome.text)[3] = ClaimExampleDtEnd))))

\* C6: the two converters agree on every input: whenever parseTo8984 has
\* returned or thrown, parseTo5545 on the same arguments does the same; both
\* fail exactly when the parser fails, with its message; when they succeed
\* the 8984 result has frequency WEEKLY, byDay equal to the codes of the
\* 5545 BYDAY list in order, and dtstart, dtend and until denote, to the
\* second, the instants of DTSTART, DTEND and UNTIL.
C6_ConvertersAgree ==
  (Returned /\ op = "parseTo8984") =>
    With(parseTo5545(startDate, endDate, recurrence, dayMap, tzOffset).outcome,
         LAMBDA a :
    With(outcome, LAMBDA b :
    With(parseRecurrenceString(recurrence, dayMap), LAMBDA p :
      /\ a.kind = b.kind
      /\ a.message = b.message
      /\ a.kind = "error" <=> p.kind = "error"
      /\ a.kind = "error" => a.message = p.message
      /\ a.kind = "ok" =>
           /\ b.json.recurrence.frequency = ClaimTextWeekly
           /\ b.json.recurrence.byDay = ClaimByDayList(a.text)
           /\ ClaimInstants("parseTo5545", a) = ClaimInstants("parseTo8984", b))))

\* parseTo8984 succeeded on a range that ends before it starts, in a period
\* that ends before it starts
C6_Witness ==
  /\ Succeeded
  /\ op = "parseTo8984"
  /\ outcome.pattern.endTime.hours < outcome.pattern.startTime.hours
  /\ endDate.day < startDate.day

\* C7 as stated: every pattern the parser returns has non-empty days and
\* both times with hour in 0..23 and minute in 0..59.
C7_Original ==
  Succeeded =>
    /\ outcome.pattern.days # <<>>
    /\ outcome.pattern.startTime.hours \in 0..23
    /\ outcome.pattern.startTime.minutes \in 0..59
    /\ outcome.pattern.endTime.hours \in 0..23
    /\ outcome.pattern.endTime.minutes \in 0..59

\* C8 as stated: formatDateTo5545 renders every instant as the sixteen
\* characters YYYYMMDDTHHMMSSZ, the year zero-padded to four digits and the
\* other UTC fields to two, sub-seconds dropped.
C8_Original ==
  (Succeeded /\ op = "parseTo5545") =>
    With(ClaimLines(outcome.text), LAMBDA lines :
    With(ClaimDrop(lines[4], Len(lines[4]) - Len(formatDateTo5545(endDate))), LAMBDA until :
    With(UTCFields(endDate), LAMBDA f :
      /\ ClaimIsSixteen(ClaimDrop(lines[2], Len(ClaimTextDtStart)))
      /\ ClaimIsSixteen(ClaimDrop(lines[3], Len(ClaimTextDtEnd)))
      /\ ClaimIsSixteen(until)
      /\ ClaimNumber(Slice(until, 1, 4)) = f.year
      /\ ClaimNumber(Slice(until, 5, 6)) = f.month
      /\ ClaimNumber(Slice(until, 7, 8)) = f.date
      /\ ClaimNumber(Slice(until, 10, 11)) = f.hours
      /\ ClaimNumber(Slice(until, 12, 13)) = f.minutes
      /\ ClaimNumber(Slice(until, 14, 15)) = f.seconds)))

\* the messages the parser raises over all the inputs, with the day table
\* as the module creates it and with the day table as it is now
ClaimRaisedMessages ==
  {parseRecurrenceString(s, DayMapInit).message : s \in Inputs} \ {""}

ClaimRaisedNow ==
  {parseRecurrenceString(s, dayMap).message : s \in Inputs} \ {""}

ClaimUnsupportedMessages ==
  {UnsupportedDayLetter(c) : c \in ClaimDayLetters \cup {"t", "r", "x", "X", " "}}

\* C9 as stated: each of the three failures, "days not found", "unsupported
\* day letter" and "times not found", is raised by some input string.
C9_Original ==
  With(ClaimRaisedNow, LAMBDA raised :
    /\ DaysNotFound \in raised
    /\ TimesNotFound \in raised
    /\ raised \cap ClaimUnsupportedMessages # {})

\* C9 amended: "days not found" and "times not found" are distinct messages,
\* each raised by some input string, and no input string raises "unsupported
\* day letter": every failure of a call carries one of the other two.
C9_TwoFailures ==
  /\ DaysNotFound # TimesNotFound
  /\ {DaysNotFound, TimesNotFound} \subseteq ClaimRaisedMessages
  /\ (Returned /\ outcome.kind = "error") =>
       outcome.message \in {DaysNotFound, TimesNotFound}

\* "MWF sometime" failed with "times not found"
C9_Witness ==
  /\ Returned
  /\ recurrence = <<"M", "W", "F", " ", "s", "o", "m", "e", "t", "i", "m", "e">>
  /\ outcome.kind = "error"
  /\ outcome.message = TimesNotFound

\* C10: no call changes the day table or the caller's periodStart and
\* periodEnd, and a call made again with the same arguments gives the same
\* result.
C10_CallsLeaveArgumentsAlone ==
  [][/\ dayMap' = dayMap
     /\ startDate' = startDate
     /\ endDate' = endDate
     /\ (pc = "returned" /\ pc' = "returned") => outcome' = outcome]_vars

\* a call returned a start instant other than periodStart, which is still
\* the instant the caller created
C10_Witness ==
  /\ Succeeded
  /\ op = "parseTo8984"
  /\ outcome.json.dtstart # toISOString(startDate)
  /\ startDate = ClaimExampleStart
  /\ endDate = ClaimExampleEnd
  /\ dayMap = DayMapInit

=============================================================================
